---- MODULE Spec2Model ----
(***************************************************************************)
(* Model of the comment-parser crate's scanning engine (src/parse.rs):     *)
(* CommentParser::new, Iterator::next, next_event and the three parse_*    *)
(* methods, together with the rule helpers of SyntaxRule.                  *)
(*                                                                         *)
(* A buffer is a sequence of bytes, a byte is a one-character string.      *)
(* Offsets are 0-based as in the source; Byte(t, i) reads the byte at      *)
(* offset i.  All bytes of the model are ASCII, so every offset is a char  *)
(* boundary of the &str.                                                   *)
(***************************************************************************)
EXTENDS Integers, Sequences, FiniteSets, TLC

VARIABLES text, rules, max_rule_len, index, status, ret, steps, ends, lookup, other

vars == <<text, rules, max_rule_len, index, status, ret, steps, ends, lookup, other>>

(* ---- bounds ---- *)

\* longest buffer handed to CommentParser::new
MaxLen == 5

\* the returns of None by Iterator::next are counted up to MaxEnds
MaxEnds == 2

\* longest buffer that two scanners scan together
MaxSharedLen == 4

(* ---- bytes and buffers ---- *)

LF == "\n"
CR == "\r"
BACKSLASH == "\\"
QUOTE == "\""
SLASH == "/"
STAR == "*"

Bytes == {SLASH, STAR, QUOTE, BACKSLASH, LF, CR}

RECURSIVE SeqsUpTo(_)
SeqsUpTo(n) ==
    IF n = 0 THEN {<<>>}
    ELSE LET shorter == SeqsUpTo(n - 1)
         IN  shorter \cup {Append(s, b) : s \in {x \in shorter : Len(x) = n - 1}, b \in Bytes}

Buffers == SeqsUpTo(MaxLen)

SharedBuffers == SeqsUpTo(MaxSharedLen)

Byte(t, i) == t[i + 1]

\* &t[a..b]
Slice(t, a, b) == SubSeq(t, a + 1, b)

\* the slice index panics unless a <= b <= len
SliceOk(t, a, b) == a <= b /\ b <= Len(t)

StartsWith(w, p) == Len(p) <= Len(w) /\ SubSeq(w, 1, Len(p)) = p

Min(S) == CHOOSE x \in S : \A y \in S : x <= y

Max(S) == CHOOSE x \in S : \A y \in S : x >= y

(* ---- SyntaxRule ---- *)

LineComment(s) == [kind |-> "LineComment", start |-> s, end |-> <<>>]
BlockComment(s, e) == [kind |-> "BlockComment", start |-> s, end |-> e]
String(s) == [kind |-> "String", start |-> s, end |-> <<>>]

parse_rule(rule) == rule.kind

start(rule) == rule.start

end(rule) == rule.end

max_rule_len_of(rs) ==
    IF Len(rs) = 0 THEN 0 ELSE Max({Len(start(rs[i])) : i \in 1..Len(rs)})

\* check_rules, were it to look at the start sequences only
check_rules_start_only(rs) ==
    ~ \E i \in 1..Len(rs) : Len(rs[i].start) = 0

check_rules(rs) ==
    ~ \E i \in 1..Len(rs) :
        IF rs[i].kind = "BlockComment"
        THEN Len(rs[i].start) = 0 \/ Len(rs[i].end) = 0
        ELSE Len(rs[i].start) = 0

\* the rule lists callers hand to CommentParser::new
RuleSets ==
    { <<>>,
      <<LineComment(<<SLASH, SLASH>>), BlockComment(<<SLASH, STAR>>, <<STAR, SLASH>>), String(<<QUOTE>>)>>,
      <<BlockComment(<<STAR>>, <<BACKSLASH>>), LineComment(<<SLASH>>), String(<<QUOTE>>)>>,
      <<LineComment(<<SLASH, STAR>>), LineComment(<<SLASH>>)>>,
      <<LineComment(<<SLASH>>), LineComment(<<SLASH, STAR>>)>>,
      <<LineComment(<<STAR>>), String(<<QUOTE, QUOTE>>), String(<<QUOTE>>)>>,
      <<LineComment(<<SLASH, STAR>>), String(<<QUOTE>>)>>,
      <<LineComment(<<SLASH, LF>>)>>,
      <<LineComment(<<>>)>>,
      <<BlockComment(<<SLASH, STAR>>, <<>>)>>,
      <<LineComment(<<SLASH>>), BlockComment(<<>>, <<STAR>>)>>,
      <<LineComment(<<SLASH>>), String(<<>>)>> }

(* ---- line-span: find_line_range, find_next_line_start ---- *)

None == -1

\* start of the physical line that contains offset i
find_line_start(t, i) ==
    LET S == {j \in 0..(i - 1) : Byte(t, j) = LF}
    IN  IF S = {} THEN 0 ELSE Max(S) + 1

\* end of the physical line that contains offset i, its LF or CRLF excluded
find_line_end(t, i) ==
    LET S == {j \in i..(Len(t) - 1) : Byte(t, j) = LF}
    IN  IF S = {} THEN Len(t)
        ELSE IF Min(S) > 0 /\ Byte(t, Min(S) - 1) = CR THEN Min(S) - 1
        ELSE Min(S)

\* offset after the first LF at or after i, None without one
find_next_line_start(t, i) ==
    LET S == {j \in i..(Len(t) - 1) : Byte(t, j) = LF}
    IN  IF S = {} THEN None ELSE Min(S) + 1

(* ---- CommentParser: one matching step ---- *)

\* what one call of next_event did: the cursor before (from) and after
\* (index), the matched offset and rule, the spans of the RawEvent, and
\* whether the call panicked instead of returning
Step(from, kind, s, r, idx, panic, rawStart, rawEnd, textStart, textEnd) ==
    [from |-> from, kind |-> kind, start |-> s, rule |-> r, index |-> idx,
     panic |-> panic, rawStart |-> rawStart, rawEnd |-> rawEnd,
     textStart |-> textStart, textEnd |-> textEnd]

\* position, were it to search the rules from the back (rposition)
position_from_back(rs, w) ==
    LET m == {i \in 1..Len(rs) : StartsWith(w, start(rs[i]))}
    IN  IF m = {} THEN 0 ELSE Max(m)

\* rules.iter().position(|rule| w.starts_with(rule.start())), 0 for None
position(rs, w) ==
    LET m == {i \in 1..Len(rs) : StartsWith(w, start(rs[i]))}
    IN  IF m = {} THEN 0 ELSE Min(m)

\* bytes[idx..].windows(n): the offsets at which a full window of n bytes starts
windows(t, idx, n) == idx..(Len(t) - n)

\* the first window that starts with a rule's start, None without one
first_match(t, rs, n, idx) ==
    LET m == {p \in windows(t, idx, n) : position(rs, Slice(t, p, p + n)) # 0}
    IN  IF m = {} THEN None ELSE Min(m)

\* parse_line_comment, were text to start at the delimiter
parse_line_comment_text_at_delimiter(t, from, s, r, rule) ==
    LET after_start == s
        line_start  == find_line_start(t, s)
        line_end    == find_line_end(t, s)
        next_line   == find_next_line_start(t, line_end)
        idx         == IF next_line = None THEN Len(t) ELSE next_line
        panic       == ~ SliceOk(t, line_start, line_end) \/ ~ SliceOk(t, after_start, line_end)
    IN  Step(from, "LineComment", s, r, idx, panic, line_start, line_end, after_start, line_end)

\* parse_line_comment, were raw to start at the delimiter instead of the line
parse_line_comment_raw_at_delimiter(t, from, s, r, rule) ==
    LET after_start == s + Len(start(rule))
        line_start  == s
        line_end    == find_line_end(t, s)
        next_line   == find_next_line_start(t, line_end)
        idx         == IF next_line = None THEN Len(t) ELSE next_line
        panic       == ~ SliceOk(t, line_start, line_end) \/ ~ SliceOk(t, after_start, line_end)
    IN  Step(from, "LineComment", s, r, idx, panic, line_start, line_end, after_start, line_end)

\* parse_line_comment, were the cursor left right after the start delimiter
parse_line_comment_cursor_after_delimiter(t, from, s, r, rule) ==
    LET after_start == s + Len(start(rule))
        line_start  == find_line_start(t, s)
        line_end    == find_line_end(t, s)
        idx         == after_start
        panic       == ~ SliceOk(t, line_start, line_end) \/ ~ SliceOk(t, after_start, line_end)
    IN  Step(from, "LineComment", s, r, idx, panic, line_start, line_end, after_start, line_end)

\* parse_line_comment, were the cursor set to the start of the comment's line
parse_line_comment_cursor_at_line_start(t, from, s, r, rule) ==
    LET after_start == s + Len(start(rule))
        line_start  == find_line_start(t, s)
        line_end    == find_line_end(t, s)
        idx         == line_start
        panic       == ~ SliceOk(t, line_start, line_end) \/ ~ SliceOk(t, after_start, line_end)
    IN  Step(from, "LineComment", s, r, idx, panic, line_start, line_end, after_start, line_end)

parse_line_comment(t, from, s, r, rule) ==
    LET after_start == s + Len(start(rule))
        line_start  == find_line_start(t, s)
        line_end    == find_line_end(t, s)
        next_line   == find_next_line_start(t, line_end)
        idx         == IF next_line = None THEN Len(t) ELSE next_line
        panic       == ~ SliceOk(t, line_start, line_end) \/ ~ SliceOk(t, after_start, line_end)
    IN  Step(from, "LineComment", s, r, idx, panic, line_start, line_end, after_start, line_end)

\* parse_block_comment, were the end searched from the byte after the match
\* offset, so that it may overlap the start delimiter
parse_block_comment_overlapping(t, from, s, r, rule) ==
    LET after_start == s + Len(start(rule))
        rule_end    == end(rule)
        m           == {i \in windows(t, s + 1, Len(rule_end)) :
                            Slice(t, i, i + Len(rule_end)) = rule_end}
        before_end  == IF m = {} THEN Len(t) ELSE Min(m)
        e           == IF m = {} THEN Len(t) ELSE Min(m) + Len(rule_end)
        panic       == after_start > Len(t) \/ ~ SliceOk(t, s, e) \/ ~ SliceOk(t, after_start, before_end)
    IN  Step(from, "BlockComment", s, r, e, panic, s, e, after_start, before_end)

\* parse_block_comment, were a comment without end sequence to end right
\* after its start delimiter
parse_block_comment_unterminated_empty(t, from, s, r, rule) ==
    LET after_start == s + Len(start(rule))
        rule_end    == end(rule)
        m           == {i \in windows(t, after_start, Len(rule_end)) :
                            Slice(t, i, i + Len(rule_end)) = rule_end}
        before_end  == IF m = {} THEN after_start ELSE Min(m)
        e           == IF m = {} THEN after_start ELSE Min(m) + Len(rule_end)
        panic       == after_start > Len(t) \/ ~ SliceOk(t, s, e) \/ ~ SliceOk(t, after_start, before_end)
    IN  Step(from, "BlockComment", s, r, e, panic, s, e, after_start, before_end)

parse_block_comment(t, from, s, r, rule) ==
    LET after_start == s + Len(start(rule))
        rule_end    == end(rule)
        m           == {i \in windows(t, after_start, Len(rule_end)) :
                            Slice(t, i, i + Len(rule_end)) = rule_end}
        before_end  == IF m = {} THEN Len(t) ELSE Min(m)
        e           == IF m = {} THEN Len(t) ELSE Min(m) + Len(rule_end)
        panic       == after_start > Len(t) \/ ~ SliceOk(t, s, e) \/ ~ SliceOk(t, after_start, before_end)
    IN  Step(from, "BlockComment", s, r, e, panic, s, e, after_start, before_end)

\* the closure without its skip flag: no byte escapes the delimiter
RECURSIVE string_position_no_escape(_, _, _, _)
string_position_no_escape(t, rule_end, i, skip) ==
    IF i + Len(rule_end) > Len(t) THEN None
    ELSE IF Slice(t, i, i + Len(rule_end)) = rule_end THEN i
    ELSE string_position_no_escape(t, rule_end, i + 1, FALSE)

\* the closure, were it to refuse every window that follows a backslash
\* instead of skipping the window after an examined backslash
RECURSIVE string_position_after_backslash(_, _, _, _)
string_position_after_backslash(t, rule_end, i, skip) ==
    IF i + Len(rule_end) > Len(t) THEN None
    ELSE IF skip THEN string_position_after_backslash(t, rule_end, i + 1, Byte(t, i) = BACKSLASH)
    ELSE IF Byte(t, i) = BACKSLASH THEN string_position_after_backslash(t, rule_end, i + 1, TRUE)
    ELSE IF Slice(t, i, i + Len(rule_end)) = rule_end THEN i
    ELSE string_position_after_backslash(t, rule_end, i + 1, FALSE)

\* .position(..) of parse_string's closure over the windows from offset i on,
\* skip being the closure's captured flag; None when no window is accepted
RECURSIVE string_position(_, _, _, _)
string_position(t, rule_end, i, skip) ==
    IF i + Len(rule_end) > Len(t) THEN None
    ELSE IF skip THEN string_position(t, rule_end, i + 1, FALSE)
    ELSE IF Byte(t, i) = BACKSLASH THEN string_position(t, rule_end, i + 1, TRUE)
    ELSE IF Slice(t, i, i + Len(rule_end)) = rule_end THEN i
    ELSE string_position(t, rule_end, i + 1, FALSE)

\* parse_string, were the cursor left right after the opening delimiter
parse_string_rescanned(t, from, s, r, rule) ==
    LET after_start == s + Len(start(rule))
        rule_end    == start(rule)
        p           == string_position(t, rule_end, after_start, FALSE)
        before_end  == IF p = None THEN Len(t) ELSE p
        e           == IF p = None THEN Len(t) ELSE p + Len(rule_end)
        panic       == after_start > Len(t) \/ ~ SliceOk(t, s, e) \/ ~ SliceOk(t, after_start, before_end)
    IN  Step(from, "String", s, r, after_start, panic, s, e, after_start, before_end)

\* parse_string, were a string without closing delimiter to end right after
\* its opening delimiter
parse_string_unterminated_empty(t, from, s, r, rule) ==
    LET after_start == s + Len(start(rule))
        rule_end    == start(rule)
        p           == string_position(t, rule_end, after_start, FALSE)
        before_end  == IF p = None THEN after_start ELSE p
        e           == IF p = None THEN after_start ELSE p + Len(rule_end)
        panic       == after_start > Len(t) \/ ~ SliceOk(t, s, e) \/ ~ SliceOk(t, after_start, before_end)
    IN  Step(from, "String", s, r, e, panic, s, e, after_start, before_end)

parse_string(t, from, s, r, rule) ==
    LET after_start == s + Len(start(rule))
        rule_end    == start(rule)
        p           == string_position(t, rule_end, after_start, FALSE)
        before_end  == IF p = None THEN Len(t) ELSE p
        e           == IF p = None THEN Len(t) ELSE p + Len(rule_end)
        panic       == after_start > Len(t) \/ ~ SliceOk(t, s, e) \/ ~ SliceOk(t, after_start, before_end)
    IN  Step(from, "String", s, r, e, panic, s, e, after_start, before_end)

\* slice::windows panics on a window size of zero
windows_panic(idx) == Step(idx, "NoMatch", None, 0, idx, TRUE, None, None, None, None)

\* the else branch, were it to leave the cursor where it is
no_match_cursor_kept(t, idx) == Step(idx, "NoMatch", None, 0, idx, FALSE, None, None, None, None)

\* the else branch of next_event: self.index = bytes.len(); None
no_match(t, idx) == Step(idx, "NoMatch", None, 0, Len(t), FALSE, None, None, None, None)

next_event(t, rs, n, idx) ==
    IF n = 0
    THEN windows_panic(idx)
    ELSE LET s == first_match(t, rs, n, idx)
         IN  IF s = None
             THEN no_match(t, idx)
             ELSE LET r == position(rs, Slice(t, s, s + n))
                  IN  CASE parse_rule(rs[r]) = "LineComment"  -> parse_line_comment(t, idx, s, r, rs[r])
                        [] parse_rule(rs[r]) = "BlockComment" -> parse_block_comment(t, idx, s, r, rs[r])
                        [] parse_rule(rs[r]) = "String"       -> parse_string(t, idx, s, r, rs[r])

\* into_event, were it to pass a String on
into_event_string_kept(ev) == ev.kind

\* RawEvent::into_event: a String is no Event
into_event(ev) == IF ev.kind = "String" THEN "None" ELSE ev.kind

\* the while loop of Iterator::next from cursor idx: the steps it runs, the
\* last one being the step that returned the event, found no match or panicked
RECURSIVE next_loop(_, _, _, _)
next_loop(t, rs, n, idx) ==
    LET ev == next_event(t, rs, n, idx)
    IN  IF ev.panic \/ ev.kind = "NoMatch" \/ into_event(ev) # "None"
        THEN <<ev>>
        ELSE <<ev>> \o next_loop(t, rs, n, ev.index)

Last(s) == s[Len(s)]

(* ---- languages.rs: the predefined rule lists and their lookup ---- *)

C ==
    <<LineComment(<<"/", "/">>), BlockComment(<<"/", "*">>, <<"*", "/">>), String(<<"\"">>)>>

PYTHON ==
    <<LineComment(<<"#">>), String(<<"\"", "\"", "\"">>), String(<<"\"">>), String(<<"'">>)>>

RUST ==
    <<LineComment(<<"/", "/", "!">>), LineComment(<<"/", "/", "/">>), LineComment(<<"/", "/">>),
      BlockComment(<<"/", "*">>, <<"*", "/">>), String(<<"\"">>)>>

SHELL ==
    <<LineComment(<<"#">>), String(<<"\"">>), String(<<"'">>)>>

\* the table, were "shell" entered before "scss"
SYNTAXES_out_of_order ==
    <<<<<<"c">>, C>>,
       <<<<"c", "p", "p">>, C>>,
       <<<<"c", "s", "s">>, C>>,
       <<<<"g", "l", "s", "l">>, C>>,
       <<<<"j", "a", "v", "a">>, C>>,
       <<<<"j", "a", "v", "a", "s", "c", "r", "i", "p", "t">>, C>>,
       <<<<"j", "s", "o", "n">>, C>>,
       <<<<"j", "s", "o", "n", "c">>, C>>,
       <<<<"p", "y", "t", "h", "o", "n">>, PYTHON>>,
       <<<<"r", "u", "s", "t">>, RUST>>,
       <<<<"s", "h", "e", "l", "l">>, SHELL>>,
       <<<<"s", "c", "s", "s">>, C>>,
       <<<<"t", "o", "m", "l">>, C>>,
       <<<<"t", "y", "p", "e", "s", "c", "r", "i", "p", "t">>, C>>,
       <<<<"y", "a", "m", "l">>, C>>>>

\* (name, rules) pairs; a name is the sequence of its characters
SYNTAXES ==
    <<<<<<"c">>, C>>,
       <<<<"c", "p", "p">>, C>>,
       <<<<"c", "s", "s">>, C>>,
       <<<<"g", "l", "s", "l">>, C>>,
       <<<<"j", "a", "v", "a">>, C>>,
       <<<<"j", "a", "v", "a", "s", "c", "r", "i", "p", "t">>, C>>,
       <<<<"j", "s", "o", "n">>, C>>,
       <<<<"j", "s", "o", "n", "c">>, C>>,
       <<<<"p", "y", "t", "h", "o", "n">>, PYTHON>>,
       <<<<"r", "u", "s", "t">>, RUST>>,
       <<<<"s", "c", "s", "s">>, C>>,
       <<<<"s", "h", "e", "l", "l">>, SHELL>>,
       <<<<"t", "o", "m", "l">>, C>>,
       <<<<"t", "y", "p", "e", "s", "c", "r", "i", "p", "t">>, C>>,
       <<<<"y", "a", "m", "l">>, C>>>>

\* the characters of the names, in the order of their bytes
Chars == <<"+", "C", "R", "a", "b", "c", "d", "e", "f", "g", "h", "i", "j", "k", "l", "m", "n", "o", "p", "q", "r", "s", "t", "u", "v", "w", "x", "y", "z">>

Ord(ch) == CHOOSE i \in 1..Len(Chars) : Chars[i] = ch

\* Ord::cmp of two &str: lexicographic by bytes
cmp(a, b) ==
    LET n == IF Len(a) < Len(b) THEN Len(a) ELSE Len(b)
        diff == {k \in 1..n : a[k] # b[k]}
    IN  IF diff = {}
        THEN IF Len(a) < Len(b) THEN "Less" ELSE IF Len(a) > Len(b) THEN "Greater" ELSE "Equal"
        ELSE IF Ord(a[Min(diff)]) < Ord(b[Min(diff)]) THEN "Less" ELSE "Greater"

\* slice::binary_search_by_key over the names of table tbl, between left and
\* right: the index of an entry that compares Equal to name, None without one
RECURSIVE binary_search_by_key(_, _, _, _)
binary_search_by_key(tbl, name, left, right) ==
    IF left >= right THEN None
    ELSE LET mid == left + (right - left) \div 2
             c   == cmp(tbl[mid + 1][1], name)
         IN  IF c = "Equal" THEN mid
             ELSE IF c = "Less" THEN binary_search_by_key(tbl, name, mid + 1, right)
             ELSE binary_search_by_key(tbl, name, left, mid)

Some(rs) == [tag |-> "Some", rules |-> rs]

NoRules == [tag |-> "None", rules |-> <<>>]

Ok(rs) == [tag |-> "Ok", rules |-> rs]

Err(e) == [tag |-> e, rules |-> <<>>]

get_syntax(name) ==
    LET i == binary_search_by_key(SYNTAXES, name, 0, Len(SYNTAXES))
    IN  IF i = None THEN NoRules ELSE Some(SYNTAXES[i + 1][2])

\* what detect_lang::from_path / from_extension answers: no language, or a
\* language with an id
NoLanguage == [found |-> FALSE, id |-> <<>>]

Language(id) == [found |-> TRUE, id |-> id]

\* get_syntax(..).ok_or(UnsupportedLanguage)
ok_or_unsupported(opt) ==
    IF opt.tag = "Some" THEN Ok(opt.rules) ELSE Err("UnsupportedLanguage")

\* get_syntax_from_path, were a missing rule list reported as UnknownLanguage
get_syntax_from_path_conflated(language) ==
    IF language.found
    THEN LET opt == get_syntax(language.id)
         IN  IF opt.tag = "Some" THEN Ok(opt.rules) ELSE Err("UnknownLanguage")
    ELSE Err("UnknownLanguage")

\* language is the answer of detect_lang::from_path(path)
get_syntax_from_path(language) ==
    IF language.found
    THEN ok_or_unsupported(get_syntax(language.id))
    ELSE Err("UnknownLanguage")

\* language is the answer of detect_lang::from_extension(extension)
get_syntax_from_extension(language) ==
    IF language.found
    THEN ok_or_unsupported(get_syntax(language.id))
    ELSE Err("UnknownLanguage")

\* the names looked up: those of the table, ids that language detection knows
\* and the table lacks, and misspellings
Names ==
    {SYNTAXES[i][1] : i \in 1..Len(SYNTAXES)} \cup
    {<<"g", "o">>, <<"h", "t", "m", "l">>, <<"l", "u", "a">>, <<"r", "u", "b", "y">>,
     <<"k", "o", "t", "l", "i", "n">>, <<"s", "w", "i", "f", "t">>, <<"p", "h", "p">>,
     <<"s", "q", "l">>, <<"x", "m", "l">>, <<"m", "a", "r", "k", "d", "o", "w", "n">>,
     <<"c", "s", "h", "a", "r", "p">>, <<"h", "a", "s", "k", "e", "l", "l">>,
     <<"p", "e", "r", "l">>, <<"d", "a", "r", "t">>, <<"z", "i", "g">>, <<>>, <<"C">>,
     <<"R", "u", "s", "t">>, <<"c", "+", "+">>, <<"c", "p">>, <<"c", "p", "p", "p">>,
     <<"j", "s", "o">>, <<"j", "s", "o", "n", "d">>, <<"r", "u", "s">>,
     <<"y", "a", "m", "l", "l">>, <<"a">>, <<"z", "z", "z">>, <<"s", "h">>, <<"p", "y">>,
     <<"r", "s">>}

Languages == {NoLanguage} \cup {Language(id) : id \in Names}

NoLookup == [op |-> "none", name |-> <<>>, language |-> NoLanguage, result |-> NoRules]

(* ---- the scanner ---- *)

\* the fields of a second CommentParser, before it is constructed; its text
\* and rules are the shared references text and rules
NoScanner ==
    [index |-> 0, max_rule_len |-> 0, status |-> "unconstructed", ret |-> "Unset", steps |-> <<>>]

Init ==
    /\ text = <<>>
    /\ rules = <<>>
    /\ max_rule_len = 0
    /\ index = 0
    /\ status = "unconstructed"
    /\ ret = "Unset"
    /\ steps = <<>>
    /\ ends = 0
    /\ lookup = NoLookup
    /\ other = NoScanner

\* CommentParser::new(t, rs); text and rules hold the arguments of the call,
\* also when the assertion fails and no scanner comes to exist
new(t, rs) ==
    /\ text' = t
    /\ rules' = rs
    /\ IF check_rules(rs)
       THEN /\ max_rule_len' = max_rule_len_of(rs)
            /\ index' = 0
            /\ status' = "ready"
            /\ UNCHANGED <<ret, steps, ends, lookup>>
       ELSE \* assert!(.., "empty syntax rule")
            /\ status' = "config_error"
            /\ UNCHANGED <<max_rule_len, index, ret, steps, ends, lookup>>

\* Iterator::next
next ==
    /\ status = "ready"
    /\ IF index = Len(text)
       THEN /\ ret' = "None"
            /\ UNCHANGED <<index, status, steps>>
       ELSE LET run == next_loop(text, rules, max_rule_len, index)
            IN  /\ steps' = steps \o run
                /\ index' = Last(run).index
                /\ status' = IF Last(run).panic THEN "panicked" ELSE "ready"
                /\ ret' = IF Last(run).panic THEN "Panic"
                          ELSE IF Last(run).kind = "NoMatch" THEN "None"
                          ELSE into_event(Last(run))
    /\ ends' = IF ret' = "None" /\ ends < MaxEnds THEN ends + 1 ELSE ends
    /\ UNCHANGED <<text, rules, max_rule_len, lookup>>

\* one scanner is constructed, once
Construct ==
    /\ status = "unconstructed"
    /\ \E t \in Buffers, rs \in RuleSets : new(t, rs)
    /\ UNCHANGED other

Advance == next /\ UNCHANGED other

Next == Construct \/ Advance

Spec == Init /\ [][Next]_vars

(* ---- two scanners over one buffer and one rule list ---- *)

\* CommentParser::new(text, rules) for the second scanner
new_other(t, rs, sc) ==
    IF check_rules(rs)
    THEN [sc EXCEPT !.max_rule_len = max_rule_len_of(rs), !.index = 0, !.status = "ready"]
    ELSE [sc EXCEPT !.status = "config_error"]

\* Iterator::next of the second scanner, were the cursor one cell that the
\* instances share instead of a field of each
next_other_shared_cursor(t, rs, sc) ==
    IF index = Len(t)
    THEN [sc EXCEPT !.ret = "None"]
    ELSE LET run == next_loop(t, rs, sc.max_rule_len, index)
         IN  [sc EXCEPT !.steps = @ \o run,
                        !.index = Last(run).index,
                        !.status = IF Last(run).panic THEN "panicked" ELSE "ready",
                        !.ret = IF Last(run).panic THEN "Panic"
                                ELSE IF Last(run).kind = "NoMatch" THEN "None"
                                ELSE into_event(Last(run))]

\* Iterator::next of the second scanner sc: the fields after the call
next_other(t, rs, sc) ==
    IF sc.index = Len(t)
    THEN [sc EXCEPT !.ret = "None"]
    ELSE LET run == next_loop(t, rs, sc.max_rule_len, sc.index)
         IN  [sc EXCEPT !.steps = @ \o run,
                        !.index = Last(run).index,
                        !.status = IF Last(run).panic THEN "panicked" ELSE "ready",
                        !.ret = IF Last(run).panic THEN "Panic"
                                ELSE IF Last(run).kind = "NoMatch" THEN "None"
                                ELSE into_event(Last(run))]

\* the first scanner is constructed over a buffer and a rule list
ConstructShared ==
    /\ status = "unconstructed"
    /\ \E t \in SharedBuffers, rs \in RuleSets : new(t, rs)
    /\ UNCHANGED other

\* the second scanner is constructed from the same two references, before or
\* after the first has been stepped
ConstructOther ==
    /\ status # "unconstructed"
    /\ other.status = "unconstructed"
    /\ other' = new_other(text, rules, other)
    /\ UNCHANGED <<text, rules, max_rule_len, index, status, ret, steps, ends, lookup>>

AdvanceOther ==
    /\ other.status = "ready"
    /\ other' = next_other(text, rules, other)
    /\ UNCHANGED <<text, rules, max_rule_len, index, status, ret, steps, ends, lookup>>

SharedNext == ConstructShared \/ ConstructOther \/ Advance \/ AdvanceOther

SharedSpec == Init /\ [][SharedNext]_vars

(* ---- the registry ---- *)

GetSyntax ==
    /\ \E name \in Names :
           lookup' = [op |-> "get_syntax", name |-> name, language |-> NoLanguage,
                      result |-> get_syntax(name)]
    /\ UNCHANGED <<text, rules, max_rule_len, index, status, ret, steps, ends, other>>

GetSyntaxFromPath ==
    /\ \E language \in Languages :
           lookup' = [op |-> "get_syntax_from_path", name |-> <<>>, language |-> language,
                      result |-> get_syntax_from_path(language)]
    /\ UNCHANGED <<text, rules, max_rule_len, index, status, ret, steps, ends, other>>

GetSyntaxFromExtension ==
    /\ \E language \in Languages :
           lookup' = [op |-> "get_syntax_from_extension", name |-> <<>>, language |-> language,
                      result |-> get_syntax_from_extension(language)]
    /\ UNCHANGED <<text, rules, max_rule_len, index, status, ret, steps, ends, other>>

RegistryNext == GetSyntax \/ GetSyntaxFromPath \/ GetSyntaxFromExtension

RegistrySpec == Init /\ [][RegistryNext]_vars

TypeOK ==
    /\ text \in Buffers
    /\ rules \in RuleSets
    /\ index \in 0..Len(text)
    /\ status \in {"unconstructed", "config_error", "ready", "panicked"}
    /\ ret \in {"Unset", "None", "Panic", "LineComment", "BlockComment"}
    /\ ends \in 0..MaxEnds
    /\ lookup.op \in {"none", "get_syntax", "get_syntax_from_path", "get_syntax_from_extension"}
    /\ other.index \in 0..Len(text)
    /\ other.status \in {"unconstructed", "config_error", "ready", "panicked"}
    /\ other.ret \in {"Unset", "None", "Panic", "LineComment", "BlockComment"}

(* ---- vocabulary of the properties ---- *)

\* the buffer begins with rule i's start sequence at offset p
BeginsAt(p, i) ==
    /\ p + Len(rules[i].start) <= Len(text)
    /\ Slice(text, p, p + Len(rules[i].start)) = rules[i].start

\* the rules whose start sequence occurs at offset p
RulesAt(p) == {i \in 1..Len(rules) : BeginsAt(p, i)}

\* the offsets from c on at which some rule's start sequence occurs
Candidates(c) == {p \in c..(Len(text) - 1) : RulesAt(p) # {}}

\* the steps that returned, and those of them that are comment events
Returned(st) == ~ st.panic

IsEvent(st) == ~ st.panic /\ st.kind \in {"LineComment", "BlockComment"}

Events == SelectSeq(steps, IsEvent)

(* ---- C1 ---- *)

\* C1: every matching step from cursor C selects the smallest offset p with
\* C <= p < length at which the buffer begins with some rule's start
\* sequence, also when p is fewer than maxStartLength bytes from the end, and
\* reports no match (cursor = length) only if there is no such offset.
C1_EarliestOffsetSelected ==
    \A k \in 1..Len(steps) :
        Returned(steps[k]) =>
            IF Candidates(steps[k].from) = {}
            THEN steps[k].kind = "NoMatch" /\ steps[k].index = Len(text)
            ELSE steps[k].kind # "NoMatch" /\ steps[k].start = Min(Candidates(steps[k].from))

(* ---- C2 ---- *)

\* C2: for every rule list that construction accepts and every buffer, every
\* Advance call returns a comment event or EndOfInput; none panics.
C2_AdvanceNeverPanics == status # "panicked"

(* ---- C3 ---- *)

\* C3: the raw spans of the events of one scan have non-decreasing start
\* offsets and do not overlap: rawEnd(e1) <= rawStart(e2) for consecutive
\* events e1, e2.
C3_RawSpansOrdered ==
    \A k \in 1..(Len(Events) - 1) :
        /\ Events[k].rawStart <= Events[k + 1].rawStart
        /\ Events[k].rawEnd <= Events[k + 1].rawStart

(* ---- C4 ---- *)

\* C4: every matching step performed while cursor < length leaves the cursor
\* strictly greater than before, and the scan ends by Advance returning
\* EndOfInput.
C4_ProgressUntilEndOfInput ==
    /\ \A k \in 1..Len(steps) :
           steps[k].from < Len(text) => steps[k].index > steps[k].from
    /\ status # "panicked"

(* ---- C5 ---- *)

\* C5: once Advance has returned EndOfInput the cursor equals the buffer
\* length, and every later Advance returns EndOfInput again and changes
\* neither the cursor nor the events emitted.
C5_EndOfInputIsFinal ==
    /\ [](ret = "None" => index = Len(text))
    /\ [][ret = "None" => (ret' = "None" /\ index' = index /\ steps' = steps)]_vars

\* EndOfInput was returned again by a call on the exhausted scanner, after
\* the scan had emitted an event
C5_Witness == ends = MaxEnds /\ ret = "None" /\ Len(Events) > 0

(* ---- C6 ---- *)

PrefixedFirst == <<LineComment(<<SLASH, STAR>>), LineComment(<<SLASH>>)>>

PrefixedLast == <<LineComment(<<SLASH>>), LineComment(<<SLASH, STAR>>)>>

\* C6: of the rules whose start sequence occurs at the selected offset, the
\* one applied has the smallest index in the rule list, whatever the lengths
\* and kinds: with the rules "/*", "/" the buffer "/*\"" gives one line
\* comment with text "\"", with the rules "/", "/*" one with text "*\"".
C6_FirstRuleInListOrder ==
    /\ \A k \in 1..Len(steps) :
           steps[k].kind # "NoMatch" => steps[k].rule = Min(RulesAt(steps[k].start))
    /\ (text = <<SLASH, STAR, QUOTE>> /\ ret # "Unset" /\ rules \in {PrefixedFirst, PrefixedLast}) =>
           /\ Len(Events) = 1
           /\ Events[1].kind = "LineComment"
           /\ Events[1].textStart = (IF rules = PrefixedFirst THEN 2 ELSE 1)
           /\ Events[1].textEnd = 3

\* an event came from an offset where two rules' start sequences occur
C6_Witness ==
    \E k \in 1..Len(steps) :
        /\ IsEvent(steps[k])
        /\ Cardinality(RulesAt(steps[k].start)) >= 2

(* ---- C7 ---- *)

\* C7: no event of a scan has its start delimiter at an offset inside a
\* string region [s, e) consumed by that scan; with the rules line comment
\* "/*" and string "\"" the buffer "\"/*\"" yields no event.
C7_NoEventStartsInsideString ==
    /\ \A i, j \in 1..Len(steps) :
           (steps[i].kind = "String" /\ Returned(steps[i]) /\ IsEvent(steps[j])) =>
               ~ (steps[i].rawStart <= steps[j].start /\ steps[j].start < steps[i].rawEnd)
    /\ (rules = <<LineComment(<<SLASH, STAR>>), String(<<QUOTE>>)>>
          /\ text = <<QUOTE, SLASH, STAR, QUOTE>> /\ ret # "Unset") =>
           (ret = "None" /\ Events = <<>>)

\* a terminated string region that holds a comment rule's start sequence was
\* consumed
C7_Witness ==
    \E i \in 1..Len(steps) :
        /\ steps[i].kind = "String"
        /\ steps[i].textEnd < steps[i].rawEnd
        /\ \E p \in steps[i].textStart..(steps[i].textEnd - 1) :
               \E r \in RulesAt(p) : rules[r].kind # "String"

(* ---- C8 ---- *)

\* C8: every emitted event has
\* 0 <= rawStart <= textStart <= textEnd <= rawEnd <= length(buffer), and
\* textStart is the offset of the matched start delimiter plus its length.
C8_SpansNested ==
    \A k \in 1..Len(steps) :
        IsEvent(steps[k]) =>
            /\ 0 <= steps[k].rawStart
            /\ steps[k].rawStart <= steps[k].textStart
            /\ steps[k].textStart <= steps[k].textEnd
            /\ steps[k].textEnd <= steps[k].rawEnd
            /\ steps[k].rawEnd <= Len(text)
            /\ steps[k].textStart = steps[k].start + Len(rules[steps[k].rule].start)

\* a line comment with code before it and a block comment with an end
\* delimiter were emitted, both with text
C8_Witness ==
    /\ \E k \in 1..Len(steps) :
           /\ IsEvent(steps[k]) /\ steps[k].kind = "LineComment"
           /\ steps[k].rawStart < steps[k].start
           /\ steps[k].textStart < steps[k].textEnd
    /\ \E k \in 1..Len(steps) :
           /\ IsEvent(steps[k]) /\ steps[k].kind = "BlockComment"
           /\ steps[k].textStart < steps[k].textEnd
           /\ steps[k].textEnd < steps[k].rawEnd

(* ---- C9 ---- *)

NoLF(a, b) == \A j \in a..(b - 1) : Byte(text, j) # LF

\* C9: a line comment with start delimiter at s has raw = the physical line
\* containing s, from the byte after the preceding LF (or 0) to the line's
\* LF or CRLF or the end of the buffer, text from s + len(start) to that
\* end, and the cursor after it is the byte after the terminator, or the
\* buffer length without one.
C9_LineCommentSpansLine ==
    \A k \in 1..Len(steps) :
        (IsEvent(steps[k]) /\ steps[k].kind = "LineComment") =>
            LET st == steps[k]
            IN  /\ st.rawStart <= st.start
                /\ st.rawStart = 0 \/ Byte(text, st.rawStart - 1) = LF
                /\ NoLF(st.rawStart, st.start)
                /\ st.textStart = st.start + Len(rules[st.rule].start)
                /\ st.textEnd = st.rawEnd
                /\ NoLF(st.start, st.rawEnd)
                /\ \/ st.rawEnd = Len(text) /\ st.index = Len(text)
                   \/ /\ st.rawEnd < Len(text)
                      /\ Byte(text, st.rawEnd) = LF
                      /\ Byte(text, st.rawEnd - 1) # CR
                      /\ st.index = st.rawEnd + 1
                   \/ /\ st.rawEnd + 1 < Len(text)
                      /\ Byte(text, st.rawEnd) = CR
                      /\ Byte(text, st.rawEnd + 1) = LF
                      /\ st.index = st.rawEnd + 2

\* a line comment on a later line, with code before it, ended by CRLF
C9_Witness ==
    \E k \in 1..Len(steps) :
        /\ IsEvent(steps[k]) /\ steps[k].kind = "LineComment"
        /\ 0 < steps[k].rawStart
        /\ steps[k].rawStart < steps[k].start
        /\ steps[k].rawEnd + 1 < Len(text)
        /\ Byte(text, steps[k].rawEnd) = CR
        /\ steps[k].index = steps[k].rawEnd + 2

(* ---- C10 ---- *)

\* the offsets from a on at which the sequence d occurs
Occurrences(d, a) == {p \in a..(Len(text) - Len(d)) : Slice(text, p, p + Len(d)) = d}

\* C10: for a block comment matched at s, with P the smallest offset
\* >= s + len(start) at which the end sequence occurs: raw = buffer[s, P +
\* len(end)), text = buffer[s + len(start), P), raw = start ++ text ++ end,
\* and the cursor becomes P + len(end).
C10_BlockCommentToFirstEnd ==
    \A k \in 1..Len(steps) :
        steps[k].kind = "BlockComment" =>
            LET st == steps[k]
                s0 == rules[st.rule].start
                e0 == rules[st.rule].end
                Ps == Occurrences(e0, st.start + Len(s0))
            IN  Ps # {} =>
                    /\ IsEvent(st)
                    /\ st.rawStart = st.start
                    /\ st.rawEnd = Min(Ps) + Len(e0)
                    /\ st.textStart = st.start + Len(s0)
                    /\ st.textEnd = Min(Ps)
                    /\ Slice(text, st.rawStart, st.rawEnd)
                         = s0 \o Slice(text, st.textStart, st.textEnd) \o e0
                    /\ st.index = Min(Ps) + Len(e0)

\* a terminated block comment whose end sequence also occurs overlapping the
\* start delimiter, as in "/*/*/"
C10_Witness ==
    \E k \in 1..Len(steps) :
        /\ IsEvent(steps[k]) /\ steps[k].kind = "BlockComment"
        /\ steps[k].textEnd < steps[k].rawEnd
        /\ Min(Occurrences(rules[steps[k].rule].end, steps[k].start + 1)) < steps[k].textStart

(* ---- C11 ---- *)

OneByteRules == <<BlockComment(<<STAR>>, <<BACKSLASH>>), LineComment(<<SLASH>>), String(<<QUOTE>>)>>

\* the block comment of step st has no end sequence after its start delimiter
Unterminated(st) ==
    Occurrences(rules[st.rule].end, st.start + Len(rules[st.rule].start)) = {}

\* C11: a block comment whose end sequence does not occur after its start
\* delimiter is emitted as one BlockComment event with raw from the start
\* delimiter and text from just after it, both to the end of the buffer; the
\* cursor becomes the buffer length, no step follows, the next Advance
\* returns EndOfInput, and the events emitted before are kept.
C11_UnterminatedBlockComment ==
    /\ [](\A k \in 1..Len(steps) :
            (steps[k].kind = "BlockComment" /\ Unterminated(steps[k])) =>
                /\ IsEvent(steps[k])
                /\ steps[k].rawStart = steps[k].start
                /\ steps[k].rawEnd = Len(text)
                /\ steps[k].textStart = steps[k].start + Len(rules[steps[k].rule].start)
                /\ steps[k].textEnd = Len(text)
                /\ steps[k].index = Len(text)
                /\ k = Len(steps)
                /\ index = Len(text))
    /\ [][(steps # <<>> /\ Last(steps).kind = "BlockComment" /\ Unterminated(Last(steps))) =>
              (ret' = "None" /\ steps' = steps)]_vars
    /\ [][Len(steps') >= Len(steps) /\ SubSeq(steps', 1, Len(steps)) = steps]_vars

\* after an earlier event an unterminated block comment with text was
\* emitted, and the Advance after it returned EndOfInput
C11_Witness ==
    /\ Len(Events) >= 2
    /\ Last(steps).kind = "BlockComment"
    /\ Unterminated(Last(steps))
    /\ Last(steps).textStart < Last(steps).textEnd
    /\ ret = "None"

(* ---- strings: escapes ---- *)

\* the number of consecutive backslashes right before offset p, from offset
\* a on
BackslashRun(a, p) ==
    Max({n \in 0..(p - a) : \A j \in (p - n)..(p - 1) : Byte(text, j) = BACKSLASH})

\* the occurrences of delimiter d from a on that no backslash escapes: a
\* backslash escapes the byte after it, so those after an even run
ClosingOccurrences(d, a) == {p \in Occurrences(d, a) : BackslashRun(a, p) % 2 = 0}

IsString(st) == st.kind = "String" /\ ~ st.panic

(* ---- C12 ---- *)

\* C12: a string whose opening delimiter has no unescaped closing occurrence
\* runs to the end of the buffer: the cursor becomes the buffer length, the
\* only step after it is the one that finds no match, no event follows, no
\* panic happens, and the Advance call returns EndOfInput.
C12_UnterminatedString ==
    \A k \in 1..Len(steps) :
        (IsString(steps[k])
           /\ ClosingOccurrences(rules[steps[k].rule].start, steps[k].textStart) = {}) =>
            /\ steps[k].rawEnd = Len(text)
            /\ steps[k].index = Len(text)
            /\ Len(steps) = k + 1
            /\ steps[k + 1].kind = "NoMatch"
            /\ ~ steps[k + 1].panic
            /\ index = Len(text)
            /\ ret = "None"
            /\ status = "ready"

\* after an earlier event, an unterminated string that holds a comment
\* rule's start sequence was consumed
C12_Witness ==
    \E k \in 2..Len(steps) :
        /\ IsString(steps[k])
        /\ ClosingOccurrences(rules[steps[k].rule].start, steps[k].textStart) = {}
        /\ \E p \in steps[k].textStart..(Len(text) - 1) :
               \E r \in RulesAt(p) : rules[r].kind # "String"
        /\ Len(Events) >= 1

(* ---- C13 ---- *)

\* the delimiter at p follows a backslash of the string's content (from a on)
AfterBackslash(a, p) == p > a /\ Byte(text, p - 1) = BACKSLASH

\* ... a backslash that is itself not preceded by a backslash
AfterLoneBackslash(a, p) ==
    AfterBackslash(a, p) /\ ~ (p - 1 > a /\ Byte(text, p - 2) = BACKSLASH)

\* C13: an occurrence of the delimiter right after a backslash that is not
\* itself preceded by a backslash does not close the string; the string
\* closes no later than the first occurrence that follows no backslash, every
\* occurrence it passes follows a backslash, and a comment after the closing
\* delimiter is found: with the one-byte rules the buffer "\"\\\"\"/" (a
\* string holding one escaped quote, then "/") gives one LineComment.
C13_EscapedDelimiterDoesNotClose ==
    /\ \A k \in 1..Len(steps) :
           IsString(steps[k]) =>
               LET st == steps[k]
                   d  == rules[st.rule].start
                   a  == st.textStart
                   closed == st.textEnd < st.rawEnd
               IN  /\ closed => (st.textEnd \in Occurrences(d, a) /\ st.rawEnd = st.textEnd + Len(d))
                   /\ closed => ~ AfterLoneBackslash(a, st.textEnd)
                   /\ \A p \in Occurrences(d, a) :
                          /\ (~ closed \/ p < st.textEnd) => AfterBackslash(a, p)
                          /\ ~ AfterBackslash(a, p) => (closed /\ st.textEnd <= p)
    /\ (rules = OneByteRules /\ text = <<QUOTE, BACKSLASH, QUOTE, QUOTE, SLASH>> /\ ret # "Unset") =>
           /\ Len(Events) = 1
           /\ Events[1].kind = "LineComment"
           /\ Events[1].start = 4
           /\ steps[1].kind = "String" /\ steps[1].rawEnd = 4

\* a string passed an occurrence of its delimiter after a lone backslash and
\* closed at a later one, and a comment after it was emitted
C13_Witness ==
    \E k \in 1..Len(steps) :
        /\ IsString(steps[k])
        /\ steps[k].textEnd < steps[k].rawEnd
        /\ \E p \in Occurrences(rules[steps[k].rule].start, steps[k].textStart) :
               p < steps[k].textEnd /\ AfterLoneBackslash(steps[k].textStart, p)
        /\ \E j \in (k + 1)..Len(steps) : IsEvent(steps[j])

(* ---- C18 ---- *)

HasEmptyDelimiter(rs) ==
    \E i \in 1..Len(rs) :
        \/ rs[i].start = <<>>
        \/ rs[i].kind = "BlockComment" /\ rs[i].end = <<>>

\* C14: Construct fails, and no scanner exists, if and only if some rule has
\* an empty delimiter (a start, or the end of a BlockComment rule); every
\* other rule list, the empty one included, gives a scanner with cursor 0.
C14_ConstructFailsIffEmptyDelimiter ==
    /\ [](status # "unconstructed" =>
            /\ status = "config_error" <=> HasEmptyDelimiter(rules)
            /\ status = "config_error" => (steps = <<>> /\ ret = "Unset"))
    /\ [][(status = "unconstructed" /\ ~ HasEmptyDelimiter(rules')) =>
              (status' = "ready" /\ index' = 0)]_vars

\* construction was refused for a block comment rule whose only empty
\* delimiter is its end
C14_Witness ==
    /\ status = "config_error"
    /\ \E i \in 1..Len(rules) :
           rules[i].kind = "BlockComment" /\ rules[i].start # <<>> /\ rules[i].end = <<>>

(* ---- C15 ---- *)

\* C15: after a line comment no byte from its start delimiter to the end of
\* its line is examined for rule starts: every later match is at or after
\* the start of the next line, so delimiters inside the comment open no
\* string and give no further event; with the rules line comment "*" and
\* strings "\"\"", "\"" the buffer "*\"/\"" gives the one LineComment only.
C15_LineCommentNotRescanned ==
    /\ \A k \in 1..Len(steps) :
           (steps[k].kind = "LineComment" /\ Returned(steps[k])) =>
               \A j \in (k + 1)..Len(steps) :
                   /\ steps[j].from >= steps[k].rawEnd
                   /\ steps[j].kind # "NoMatch" =>
                          /\ steps[j].start > steps[k].rawEnd
                          /\ ~ NoLF(steps[k].start, steps[j].start)
    /\ (rules = <<LineComment(<<STAR>>), String(<<QUOTE, QUOTE>>), String(<<QUOTE>>)>>
          /\ text = <<STAR, QUOTE, SLASH, QUOTE>> /\ ret # "Unset") =>
           /\ Len(steps) = 1
           /\ IsEvent(steps[1]) /\ steps[1].kind = "LineComment"
           /\ steps[1].textStart = 1 /\ steps[1].textEnd = 4

\* a line comment whose text holds a rule's start sequence was emitted and
\* the scan went on to a match on a later line
C15_Witness ==
    \E k \in 1..Len(steps) :
        /\ IsEvent(steps[k]) /\ steps[k].kind = "LineComment"
        /\ \E p \in steps[k].textStart..(steps[k].textEnd - 1) : RulesAt(p) # {}
        /\ \E j \in (k + 1)..Len(steps) : steps[j].kind # "NoMatch"

(* ---- C19 ---- *)

\* C19: in every scanner state 0 <= cursor <= length(buffer); the cursor
\* starts at 0; no step decreases it, each step starting where the one before
\* ended; and a step changes nothing of the scanner but the cursor.
C19_CursorMonotonic ==
    /\ [](status \in {"ready", "panicked"} =>
            /\ 0 <= index /\ index <= Len(text)
            /\ steps = <<>> => index = 0
            /\ steps # <<>> => (steps[1].from = 0 /\ Last(steps).index = index)
            /\ \A k \in 1..Len(steps) :
                   /\ steps[k].from <= steps[k].index
                   /\ steps[k].index <= Len(text)
                   /\ k > 1 => steps[k].from = steps[k - 1].index)
    /\ [][status = "ready" =>
              /\ index' >= index
              /\ text' = text /\ rules' = rules /\ max_rule_len' = max_rule_len]_vars

\* the cursor moved three times: a step started from a cursor that an
\* earlier step had set
C19_Witness ==
    /\ Len(steps) >= 3
    /\ 0 < steps[2].from /\ steps[2].from < steps[3].from
    /\ steps[3].from < index

(* ---- C20 ---- *)

\* the steps that the Advance call of this transition ran
StepsOfCall == SubSeq(steps', Len(steps) + 1, Len(steps'))

\* C20: Advance returns a LineComment event, a BlockComment event or
\* EndOfInput, never a string; the event's kind is the kind of the rule that
\* matched; a call consumes any number of consecutive strings and returns
\* only with a comment event or with the cursor at the buffer length.
C20_OnlyCommentsReturned ==
    [][status = "ready" =>
          LET run == StepsOfCall
          IN  /\ ret' \in {"LineComment", "BlockComment", "None", "Panic"}
              /\ \A k \in 1..(Len(run) - 1) : IsString(run[k])
              /\ ret' \in {"LineComment", "BlockComment"} =>
                     /\ run # <<>>
                     /\ IsEvent(Last(run))
                     /\ ret' = Last(run).kind
                     /\ ret' = rules[Last(run).rule].kind
                     /\ BeginsAt(Last(run).start, Last(run).rule)
              /\ ret' = "None" =>
                     /\ index' = Len(text)
                     /\ run # <<>> => Last(run).kind = "NoMatch"
              /\ ret' = "Panic" => (run # <<>> /\ Last(run).panic)]_vars

\* one call consumed two strings and then returned a comment event
C20_Witness ==
    /\ Len(steps) >= 3
    /\ IsString(steps[1]) /\ IsString(steps[2])
    /\ IsEvent(steps[3])
    /\ ret = steps[3].kind

(* ---- C21 ---- *)

\* the steps of a scanner that is constructed over t and rs and stepped alone
\* until it returns None or panics: for event in CommentParser::new(t, rs)
RECURSIVE AloneFrom(_, _, _, _)
AloneFrom(t, rs, n, idx) ==
    IF idx = Len(t) THEN <<>>
    ELSE LET run == next_loop(t, rs, n, idx)
         IN  IF Last(run).panic THEN run
             ELSE run \o AloneFrom(t, rs, n, Last(run).index)

Alone == AloneFrom(text, rules, max_rule_len_of(rules), 0)

IsPrefix(a, b) == Len(a) <= Len(b) /\ a = SubSeq(b, 1, Len(a))

\* the cursor a scanner has after the steps st
CursorAfter(st) == IF st = <<>> THEN 0 ELSE Last(st).index

\* what a scanner with steps st, cursor c, state s and last return r has done
\* is what a scanner run alone has done after as many steps
AsAlone(st, c, s, r) ==
    /\ IsPrefix(st, Alone)
    /\ c = CursorAfter(st)
    /\ (s = "ready" /\ r = "None") => st = Alone
    /\ s = "panicked" => (st = Alone /\ Last(st).panic)
    /\ (s = "ready" /\ r \in {"LineComment", "BlockComment"}) =>
           (st # <<>> /\ Last(st).kind = r)

\* C21: two scanners built over the same buffer and rule list and stepped in
\* any interleaving each emit the event sequence they emit when run alone:
\* at every point the steps of each are a prefix of the steps of a scan run
\* alone, all of them once it has returned EndOfInput; a step of one scanner
\* changes neither the buffer, the rule list, nor any field of the other
\* scanner.
C21_ScannersIndependent ==
    /\ [](status \in {"ready", "panicked"} => AsAlone(steps, index, status, ret))
    /\ [](other.status \in {"ready", "panicked"} =>
              AsAlone(other.steps, other.index, other.status, other.ret))
    /\ [][status # "unconstructed" => (text' = text /\ rules' = rules)]_vars
    /\ [][(status # "unconstructed" /\ <<index, status, ret, steps>>' # <<index, status, ret, steps>>)
              => other' = other]_vars
    /\ [][(other.status # "unconstructed" /\ other' # other)
              => <<index, max_rule_len, status, ret, steps>>' = <<index, max_rule_len, status, ret, steps>>]_vars

\* both scanners are in the middle of the same scan at different cursors:
\* the first has returned its first event, the second already a later one
C21_Witness ==
    /\ status = "ready" /\ other.status = "ready"
    /\ ret \in {"LineComment", "BlockComment"}
    /\ other.ret \in {"LineComment", "BlockComment"}
    /\ Len(SelectSeq(steps, IsEvent)) = 1
    /\ Len(SelectSeq(other.steps, IsEvent)) = 2
    /\ index < other.index

(* ---- C22 ---- *)

\* C22: the backslash escape applies only to the search for a string's
\* closing delimiter.  Outside every region, at the first offset at or after
\* the cursor where a rule's start sequence occurs, the region starts also
\* when the byte before that offset is a backslash; and a block comment ends
\* at the first occurrence of its end sequence after the start delimiter
\* also when a backslash of the comment stands right before it.
C22_BackslashEscapesOnlyInStrings ==
    /\ \A k \in 1..Len(steps) :
           (/\ Returned(steps[k])
            /\ Candidates(steps[k].from) # {}
            /\ AfterBackslash(0, Min(Candidates(steps[k].from)))) =>
               /\ steps[k].kind # "NoMatch"
               /\ steps[k].start = Min(Candidates(steps[k].from))
    /\ \A k \in 1..Len(steps) :
           (steps[k].kind = "BlockComment" /\ Returned(steps[k])) =>
               LET d   == rules[steps[k].rule].end
                   occ == Occurrences(d, steps[k].textStart)
               IN  (occ # {} /\ AfterBackslash(steps[k].textStart, Min(occ))) =>
                       /\ steps[k].textEnd = Min(occ)
                       /\ steps[k].rawEnd = Min(occ) + Len(d)

(* ---- C16 ---- *)

\* the names that have an entry in the table
Keys == {SYNTAXES[i][1] : i \in 1..Len(SYNTAXES)}

\* the rule list the table holds for name
RulesOf(name) == (CHOOSE i \in 1..Len(SYNTAXES) : SYNTAXES[i][1] = name)

\* C16: lookup by path or by extension gives UnknownLanguage exactly when
\* detection finds no language, UnsupportedLanguage exactly when it finds a
\* language whose id is no key of the table, and the table's rule list
\* exactly when the id is a key.
C16_UnknownAndUnsupportedDistinct ==
    lookup.op \in {"get_syntax_from_path", "get_syntax_from_extension"} =>
        /\ lookup.result.tag \in {"Ok", "UnknownLanguage", "UnsupportedLanguage"}
        /\ lookup.result.tag = "UnknownLanguage" <=> ~ lookup.language.found
        /\ lookup.result.tag = "UnsupportedLanguage" <=>
               (lookup.language.found /\ lookup.language.id \notin Keys)
        /\ lookup.result.tag = "Ok" <=>
               (lookup.language.found /\ lookup.language.id \in Keys)
        /\ lookup.result.tag = "Ok" =>
               lookup.result.rules = SYNTAXES[RulesOf(lookup.language.id)][2]

\* a language was detected that the table lacks
C16_Witness ==
    /\ lookup.op = "get_syntax_from_extension"
    /\ lookup.language.found
    /\ lookup.language.id = <<"g", "o">>
    /\ lookup.result.tag = "UnsupportedLanguage"

(* ---- C17 ---- *)

\* C17: the table is strictly ascending by name, and the lookup by name
\* returns the rule list of a name if and only if that name is a key of the
\* table, None for every other string.
C17_SortedTableLookup ==
    /\ \A i \in 1..(Len(SYNTAXES) - 1) : cmp(SYNTAXES[i][1], SYNTAXES[i + 1][1]) = "Less"
    /\ lookup.op = "get_syntax" =>
           /\ lookup.result.tag = "Some" <=> lookup.name \in Keys
           /\ lookup.result.tag = "None" <=> lookup.name \notin Keys
           /\ lookup.name \in Keys =>
                  lookup.result.rules = SYNTAXES[RulesOf(lookup.name)][2]

\* the rules of "scss", an entry the search reaches to the right of the middle
C17_Witness ==
    /\ lookup.op = "get_syntax"
    /\ lookup.name = <<"s", "c", "s", "s">>
    /\ lookup.result = Some(C)

====
